---- MODULE Spec2Model ----
(***************************************************************************)
(* A model of flexistack's discovery and dispatch engine                   *)
(* (src/src/flexistack/flexistack.py): FlexiModule (the lazy module        *)
(* reference), FlexiModPack (the versions of a plugin),                    *)
(* Flexistack.load_actions, Flexistack.load_plugins and Flexistack.run.    *)
(* Each handler of the program is one action; what a handler did is        *)
(* recorded in the variable `last`.                                        *)
(***************************************************************************)
EXTENDS Integers, Sequences, FiniteSets, TLC

(***************************************************************************)
(* Bounds of the model.                                                    *)
(***************************************************************************)
\* deepest chain of grouping directories in a discovered action tree
MaxDirs == 5
\* number of handler calls (loads, dispatches, reference calls) in one run
MaxSteps == 3
\* number of dispatches (calls of Flexistack.run) in one run
MaxDispatches == 1
\* the call frames the interpreter allows one call chain (its recursion limit)
MaxFrames == 4

(***************************************************************************)
(* Python values.  None, True and False are written as reserved strings    *)
(* that no command name uses; every other string is a Python str.          *)
(***************************************************************************)
PyNone == "<None>"
PyTrue == "<True>"
PyFalse == "<False>"
PyOne == "<1>"
PyZero == "<0>"
PyEmpty == "<''>"
PyText == "<'ok'>"

\* the values an action's init may return
InitValues == {PyTrue, PyFalse, PyNone, PyOne, PyZero, PyEmpty, PyText}
\* the values an action's run may return
RunValues == {PyTrue, PyFalse, PyNone}

\* bool(v)
Truthy(v) == v \in {PyTrue, PyOne, PyText}

EqTrueAsNotFalse(v) == v # PyFalse
\* v == True  (1 == True holds in Python, 'ok' == True does not)
EqTrue(v) == v \in {PyTrue, PyOne}

\* isinstance(v, str)
IsStr(v) == v \notin {PyNone, PyTrue, PyFalse, PyOne, PyZero}

\* what a step of the program raises: nothing, an Exception, or a
\* BaseException that is no Exception (SystemExit, KeyboardInterrupt)
NoRaise == "ok"
RaiseException == "Exception"
RaiseBaseException == "SystemExit"

(***************************************************************************)
(* Dictionaries.  A dict whose order is never read is a function; the      *)
(* parsed result, which Flexistack.run iterates in insertion order, is a   *)
(* sequence of <<key, value>> pairs.                                       *)
(***************************************************************************)
EmptyDict == [k \in {} |-> PyNone]

\* d[k] = v
Put(d, k, v) == [x \in (DOMAIN d) \cup {k} |-> IF x = k THEN v ELSE d[x]]

\* k in pa
HasKey(pa, k) == \E i \in 1..Len(pa) : pa[i][1] = k

\* pa[k], for a key that is present
Get(pa, k) == pa[CHOOSE i \in 1..Len(pa) : pa[i][1] = k][2]

\* setattr(namespace, k, v): a key that is present keeps its place
SetKey(pa, k, v) == IF HasKey(pa, k) THEN [i \in 1..Len(pa) |-> IF pa[i][1] = k THEN <<k, v>> ELSE pa[i]] ELSE Append(pa, <<k, v>>)

RECURSIVE Join(_, _)
\* sep.join(parts)
Join(parts, sep) == IF parts = <<>> THEN "" ELSE IF Len(parts) = 1 THEN parts[1] ELSE parts[1] \o sep \o Join(Tail(parts), sep)

(***************************************************************************)
(* FlexiModule: the lazy reference to one discovered file.                 *)
(*   p      the file's path            c   the tagged class's name         *)
(*   m      the loaded module: None, "module", or "partial" (the module    *)
(*          object of a file whose execution raised)                       *)
(*   ok     whether executing the file at p completes without raising      *)
(*   execs  how often this reference has executed the file                 *)
(*   calls  how often this reference has been called                       *)
(***************************************************************************)
ModuleLoaded == "module"
ModulePartial == "partial"

\* lines 148-151 and 166-169: module_from_spec, exec_module; self.m is
\* assigned before exec_module runs, so it stays set when the file raises
ExecFile(ref) == [ref EXCEPT !.m = IF ref.ok THEN ModuleLoaded ELSE ModulePartial, !.execs = ref.execs + 1]

ExecNeverRaises(ref) == FALSE
\* line 168 (and 150): exec_module raises what the file's top-level code raises
ExecRaises(ref) == ~ref.ok

EagerAlways(lazy) == TRUE
\* line 147: if lazy == False
IsEager(lazy) == lazy = FALSE

\* FlexiModule.__init__: the reference, whether the constructor raised, and
\* how many files it executed
FlexiModuleInit(p, c, ok, lazy) ==
    LET fresh == [p |-> p, c |-> c, m |-> PyNone, ok |-> ok, execs |-> 0, calls |-> 0]
    IN  IF IsEager(lazy)
        THEN [ref |-> ExecFile(fresh), raised |-> IF ExecRaises(fresh) THEN RaiseException ELSE NoRaise, execd |-> 1]
        ELSE [ref |-> fresh, raised |-> NoRaise, execd |-> 0]

NeedsExecAlways(ref) == TRUE
\* line 165: if self.m == None
NeedsExec(ref) == ref.m = PyNone

\* FlexiModule.__call__(flexistack, as_module).  ctor is what the target
\* class's constructor raises.  Returns the reference after the call, what the
\* call raised, what it returned and how many files it executed.
FlexiModuleCall(ref, as_module, ctor) ==
    LET called == [ref EXCEPT !.calls = ref.calls + 1]
        loaded == IF NeedsExec(ref) THEN ExecFile(called) ELSE called
        execd  == loaded.execs - ref.execs
    IN  IF NeedsExec(ref) /\ ExecRaises(ref)
        THEN [ref |-> loaded, raised |-> RaiseException, ret |-> PyNone, execd |-> execd]
        ELSE IF as_module
        THEN [ref |-> loaded, raised |-> NoRaise, ret |-> loaded.m, execd |-> execd]
        ELSE IF loaded.m = ModulePartial
        \* line 171 on a partly executed module: getattr finds no class, or the
        \* class's __init__ (line 772) finds no sys.modules entry
        THEN [ref |-> loaded, raised |-> RaiseException, ret |-> PyNone, execd |-> execd]
        ELSE IF ctor # NoRaise
        THEN [ref |-> loaded, raised |-> ctor, ret |-> PyNone, execd |-> execd]
        ELSE [ref |-> loaded, raised |-> NoRaise, ret |-> "instance", execd |-> execd]

(***************************************************************************)
(* FlexiModPack: the versions of one plugin, a dict from version string to *)
(* FlexiModule.  A pack is the sequence of its <<version, reference>>      *)
(* items in insertion order; a version string is the sequence of its       *)
(* characters, so that split and int work on what the string holds.        *)
(***************************************************************************)
EmptyPack == <<>>

\* the keys of a pack, in insertion order
Keys(pack) == [i \in 1..Len(pack) |-> pack[i][1]]

PackKeepOne(pack, version, ref) == << <<version, ref>> >>
PackAddFirstWins(pack, version, ref) == IF HasKey(pack, version) THEN pack ELSE SetKey(pack, version, ref)
\* line 421: self.plugins[p_name][p_vers] = FlexiModule(...)
PackAdd(pack, version, ref) == SetKey(pack, version, ref)

IsDigit(ch) == ch \in {"0", "1", "2", "3", "4", "5", "6", "7", "8", "9"}

Digit(ch) == CASE ch = "0" -> 0 [] ch = "1" -> 1 [] ch = "2" -> 2 [] ch = "3" -> 3 [] ch = "4" -> 4
               [] ch = "5" -> 5 [] ch = "6" -> 6 [] ch = "7" -> 7 [] ch = "8" -> 8 [] ch = "9" -> 9

RECURSIVE Split(_, _)
\* version.split('.')
Split(chars, ch) ==
    IF \A i \in 1..Len(chars) : chars[i] # ch
    THEN <<chars>>
    ELSE LET i == CHOOSE j \in 1..Len(chars) : chars[j] = ch /\ \A k \in 1..(j - 1) : chars[k] # ch
         IN  <<SubSeq(chars, 1, i - 1)>> \o Split(SubSeq(chars, i + 1, Len(chars)), ch)

\* whether int(chars) returns: a non-empty run of digits
IsInt(chars) == chars # <<>> /\ \A i \in 1..Len(chars) : IsDigit(chars[i])

RECURSIVE ToInt(_)
\* int(chars)
ToInt(chars) == IF chars = <<>> THEN 0 ELSE 10 * ToInt(SubSeq(chars, 1, Len(chars) - 1)) + Digit(chars[Len(chars)])

\* the code points of a string, as far as versions use them ('.' sorts
\* before every digit)
Ord(ch) == IF IsDigit(ch) THEN 48 + Digit(ch) ELSE 46

VersionKeyAsText(version) == [i \in 1..Len(version) |-> Ord(version[i])]
\* lines 209-210: tuple(map(int, version.split('.')))
VersionKey(version) == LET parts == Split(version, ".") IN [i \in 1..Len(parts) |-> ToInt(parts[i])]

\* whether the key function returns for a version (int raises ValueError
\* otherwise)
IsVersion(version) == \A part \in { Split(version, ".")[i] : i \in 1..Len(Split(version, ".")) } : IsInt(part)

RECURSIVE TupleLess(_, _)
\* a < b on tuples of integers
TupleLess(a, b) ==
    IF b = <<>> THEN FALSE
    ELSE IF a = <<>> THEN TRUE
    ELSE IF Head(a) # Head(b) THEN Head(a) < Head(b)
    ELSE TupleLess(Tail(a), Tail(b))

RECURSIVE InsertDescending(_, _)
InsertDescending(sorted, version) ==
    IF sorted = <<>>
    THEN <<version>>
    ELSE IF ~TupleLess(VersionKey(Head(sorted)), VersionKey(version))
    THEN <<Head(sorted)>> \o InsertDescending(Tail(sorted), version)
    ELSE <<version>> \o sorted

RECURSIVE SortDescending(_)
\* sorted(keys, key=..., reverse=True): stable, equal keys keep their order
SortDescending(keys) == IF keys = <<>> THEN <<>> ELSE InsertDescending(SortDescending(SubSeq(keys, 1, Len(keys) - 1)), keys[Len(keys)])

\* FlexiModPack.versions(), lines 200-211
Versions(pack) ==
    IF \E i \in 1..Len(pack) : ~IsVersion(pack[i][1])
    THEN [raised |-> RaiseException, ret |-> <<>>]
    ELSE [raised |-> NoRaise, ret |-> SortDescending(Keys(pack))]

OldestOf(versions) == versions[Len(versions)]
\* line 196: self.versions()[0]
LatestOf(versions) == versions[1]

\* FlexiModPack.__call__(flexistack, as_module), lines 191-196: the pack after
\* the call, the version resolved, and what the call raised and returned
FlexiModPackCall(pack, as_module, ctor) ==
    LET listed == Versions(pack)
        version == LatestOf(listed.ret)
        call == FlexiModuleCall(Get(pack, version), as_module, ctor)
    IN  IF listed.raised # NoRaise \/ listed.ret = <<>>
        \* versions() raised, or [][0]: IndexError
        THEN [pack |-> pack, version |-> PyNone, raised |-> RaiseException, ret |-> PyNone, execd |-> 0]
        ELSE [pack |-> SetKey(pack, version, call.ref), version |-> version, raised |-> call.raised, ret |-> call.ret, execd |-> call.execd]

(***************************************************************************)
(* The directory trees discovery walks.  An entry of a directory listing   *)
(* is a file or a subdirectory:                                            *)
(*   stem, ext  the entry's name (a directory has ext "")                  *)
(*   tag        what static inspection finds in a file:                    *)
(*                "positional"  @flexi_action(None, ..) on a class that    *)
(*                              defines set_optional_arguments             *)
(*                "optional"    @flexi_action(<store mode>, ..)            *)
(*                "none"        no recognised tag                          *)
(*   ok         whether executing the file completes without raising       *)
(*   manifest   of a directory: "ok", "none" (no .flexistack file) or      *)
(*              "bad" (a .flexistack file without z-index)                 *)
(*   z          the manifest's z-index                                     *)
(*   entries    a directory's listing, in os.listdir order                 *)
(***************************************************************************)
FileEntry(stem, tag, ok) == [kind |-> "file", stem |-> stem, ext |-> ".py", tag |-> tag, ok |-> ok, manifest |-> "none", z |-> 0, entries |-> <<>>]

DirEntry(name, manifest, z, entries) == [kind |-> "dir", stem |-> name, ext |-> "", tag |-> "none", ok |-> TRUE, manifest |-> manifest, z |-> z, entries |-> entries]

\* line 541: a .py file that is no .pyc and no __init__
IsActionFile(n) == n.kind = "file" /\ n.ext = ".py" /\ n.stem # "__init__"

\* line 545: command = itempath.replace(".py", "")
Command(n) == n.stem

\* lines 543-544: os.path.relpath(_directory, dir_path) joins with os.sep;
\* "." is the root itself
RelativeAction(reldirs, sep) ==
    LET relative_action == IF reldirs = <<>> THEN "." ELSE Join(reldirs, sep)
    IN  IF relative_action = "." THEN "" ELSE relative_action \o "/"

\* line 546: action_name = relative_action + command
ActionName(reldirs, n, sep) == RelativeAction(reldirs, sep) \o Command(n)

\* line 547: module_full_path
ModulePath(root, reldirs, n) == Join(<<root>> \o reldirs \o <<n.stem \o n.ext>>, "/")

\* the parser object of a directory, named by its place in the command tree
ParserOf(reldirs) == Join(reldirs, "/")

(***************************************************************************)
(* FlexiModules: the registry of a Flexistack (actions, plugins).          *)
(***************************************************************************)
RECURSIVE FlexiModulesCall(_, _, _)
\* FlexiModules.__call__, lines 223-228: return self(flexistack, as_module),
\* a call of the same method on the same object; frames counts the frames of
\* the chain, and the interpreter raises RecursionError at its limit
FlexiModulesCall(registry, as_module, frames) ==
    IF frames > MaxFrames
    THEN [raised |-> RaiseException, ret |-> PyNone, frames |-> frames - 1]
    ELSE FlexiModulesCall(registry, as_module, frames + 1)

\* FlexiModules.exists(mod_names) of one name, lines 277-278: self.get(name)
\* is not None, which an empty FlexiModPack satisfies
Exists(registry, mod_name) == mod_name \in DOMAIN registry

(***************************************************************************)
(* Flexistack.load_actions._load.  The walk threads                        *)
(*   actions  the action registry        grammar  the argparse calls made  *)
(*   execd    files executed             raised   the exception under way  *)
(*   failed   file executions that raised                                  *)
(* A call made on the parser tree is recorded as                           *)
(*   op    add_subparsers, add_parser or add_argument                      *)
(*   kind  "dest" (a subparser group), "group" (the parser of a grouping   *)
(*         directory), "leaf" (the parser of a positional action) or       *)
(*         "flag" (the flag of an optional action)                         *)
(*   on    the parser called, named by its place in the command tree       *)
(*   name  the subcommand, flag or dest added                              *)
(*   dir   the directory whose listing led to the call                     *)
(*   z     of a group: the z-index of its manifest                         *)
(***************************************************************************)
Event(op, kind, on, name, dir, z) == [op |-> op, kind |-> kind, on |-> on, name |-> name, dir |-> dir, z |-> z]

\* the directory _load is listing
DirPath(root, reldirs) == Join(<<root>> \o reldirs, "/")

\* whether parser `on` has a subcommand called name already
ParserExists(grammar, on, name) == \E i \in 1..Len(grammar) : grammar[i].op = "add_parser" /\ grammar[i].on = on /\ grammar[i].name = name

\* _subparser.add_parser(name), lines 574 and 602: a name the group has
\* already is refused by argparse from Python 3.11 on (cfg.strict) and
\* replaces the earlier parser before
AddParser(st, cfg, event) ==
    IF cfg.strict /\ ParserExists(st.grammar, event.on, event.name)
    THEN [st EXCEPT !.raised = RaiseException]
    ELSE [st EXCEPT !.grammar = Append(st.grammar, event)]

NeverRegistered(registry, action_name) == FALSE
\* lines 572 and 590: self.actions.get(action_name) is None, negated
AlreadyRegistered(registry, action_name) == action_name \in DOMAIN registry

\* lines 572-574 and 590-592: register once, then add the grammar entry
RegisterAction(st, cfg, root, reldirs, n) ==
    LET action_name == ActionName(reldirs, n, cfg.sep)
        made == FlexiModuleInit(ModulePath(root, reldirs, n), "Action", n.ok, cfg.lazyload)
        stored == [st EXCEPT !.actions = Put(st.actions, action_name, made.ref), !.execd = st.execd + made.execd]
    IN  IF AlreadyRegistered(st.actions, action_name)
        THEN st
        ELSE IF made.raised # NoRaise
        THEN [st EXCEPT !.execd = st.execd + made.execd, !.failed = st.failed + 1, !.raised = made.raised]
        ELSE IF n.tag = "positional"
        THEN AddParser(stored, cfg, Event("add_parser", "leaf", ParserOf(reldirs), Command(n), DirPath(root, reldirs), 0))
        ELSE [stored EXCEPT !.grammar = Append(st.grammar, Event("add_argument", "flag", ParserOf(reldirs), Command(n), DirPath(root, reldirs), 0))]

HasManifestAlways(n) == TRUE
\* line 533: os.path.exists(dotflexfilepath)
HasManifest(n) == n.manifest # "none"

RECURSIVE ListPass(_, _, _, _, _, _)
\* lines 526-599: one pass over the listing; grouping directories are
\* collected, action files are registered
ListPass(entries, i, cfg, root, reldirs, acc) ==
    IF i > Len(entries) \/ acc.st.raised # NoRaise
    THEN acc
    ELSE LET n == entries[i]
             next == IF n.kind = "dir"
                     THEN IF ~HasManifest(n)
                          THEN acc
                          ELSE IF n.manifest = "bad"
                          THEN [acc EXCEPT !.st.raised = RaiseException]
                          ELSE [acc EXCEPT !.subdirs = Append(acc.subdirs, n)]
                     ELSE IF IsActionFile(n) /\ n.tag \in {"positional", "optional"}
                          THEN [acc EXCEPT !.st = RegisterAction(acc.st, cfg, root, reldirs, n)]
                          ELSE acc
         IN  ListPass(entries, i + 1, cfg, root, reldirs, next)

RECURSIVE InsertByZ(_, _)
InsertByZ(sorted, d) ==
    IF sorted = <<>>
    THEN <<d>>
    ELSE IF Head(sorted).z <= d.z
    THEN <<Head(sorted)>> \o InsertByZ(Tail(sorted), d)
    ELSE <<d>> \o sorted

ListingOrder(subdirs) == subdirs
RECURSIVE SortByZ(_)
\* line 600: subdirs.sort(key=lambda tup: tup[0]), a stable sort
SortByZ(subdirs) == IF subdirs = <<>> THEN <<>> ELSE InsertByZ(SortByZ(SubSeq(subdirs, 1, Len(subdirs) - 1)), subdirs[Len(subdirs)])

RECURSIVE LoadDir(_, _, _, _, _)
RECURSIVE RecurseDirs(_, _, _, _, _, _)
\* lines 601-604: a parser and a subparser group per grouping directory, then
\* the directory itself
RecurseDirs(subdirs, i, cfg, root, reldirs, st) ==
    IF i > Len(subdirs) \/ st.raised # NoRaise
    THEN st
    ELSE LET d == subdirs[i]
             inner == Append(reldirs, d.stem)
             parser == AddParser(st, cfg, Event("add_parser", "group", ParserOf(reldirs), d.stem, DirPath(root, reldirs), d.z))
             added == [parser EXCEPT !.grammar = Append(parser.grammar, Event("add_subparsers", "dest", ParserOf(inner), d.stem \o "_action", DirPath(root, reldirs), 0))]
         IN  IF parser.raised # NoRaise
             THEN parser
             ELSE RecurseDirs(subdirs, i + 1, cfg, root, reldirs, LoadDir(d.entries, cfg, root, inner, added))

LoadDirGroupsFirst(entries, cfg, root, reldirs, st) ==
    LET groups == SelectSeq(entries, LAMBDA n : n.kind = "dir" /\ n.manifest = "ok")
        files == SelectSeq(entries, LAMBDA n : n.kind = "file")
        grouped == RecurseDirs(SortByZ(groups), 1, cfg, root, reldirs, st)
    IN  ListPass(files, 1, cfg, root, reldirs, [st |-> grouped, subdirs |-> <<>>]).st
\* lines 524-604: _load(_directory, _parser, _subparser)
LoadDir(entries, cfg, root, reldirs, st) ==
    LET listed == ListPass(entries, 1, cfg, root, reldirs, [st |-> st, subdirs |-> <<>>])
    IN  IF listed.st.raised # NoRaise
        THEN listed.st
        ELSE RecurseDirs(SortByZ(listed.subdirs), 1, cfg, root, reldirs, listed.st)

RECURSIVE LoadRoots(_, _, _, _)
\* lines 618-621: every root directory in turn
LoadRoots(roots, i, cfg, st) ==
    IF i > Len(roots) \/ st.raised # NoRaise
    THEN st
    ELSE LoadRoots(roots, i + 1, cfg, LoadDir(roots[i].entries, cfg, roots[i].path, <<>>, st))

(***************************************************************************)
(* Flexistack.load_plugins.  A plugin file of the walk:                    *)
(*   path  the file     tag  "plugin" (@flexi_plugin with three literal    *)
(*   arguments), "malformed" (a tag whose arguments cannot be read) or     *)
(*   "none"             name, vers  the tag's first two arguments (vers as *)
(*   the sequence of its characters)                                       *)
(*   ok    whether executing the file completes without raising            *)
(***************************************************************************)
\* line 417: decorator.args[1].value of an integer literal is an int, which
\* has the literal's digits but is no string
IntLiteral(digits) == <<"<int>">> \o digits

PluginFile(path, tag, name, vers, ok) == [path |-> path, tag |-> tag, name |-> name, vers |-> vers, ok |-> ok]

PackForAlwaysNew(registry, p_name) == Put(registry, p_name, EmptyPack)
\* lines 419-420: the FlexiModPack of a name is created when the name has none,
\* before the reference is made
PackFor(registry, p_name) == IF p_name \in DOMAIN registry THEN registry ELSE Put(registry, p_name, EmptyPack)

\* lines 397-430, _load(module_full_path): one file.  Reading a tag whose
\* arguments are no literals raises; so does the constructor of an eager
\* reference whose file raises.
LoadPluginFile(st, cfg, f) ==
    LET made == FlexiModuleInit(f.path, "Plugin", f.ok, cfg.lazyload)
        packed == PackFor(st.plugins, f.name)
    IN  IF f.tag = "none"
        THEN st
        ELSE IF f.tag = "malformed"
        THEN [st EXCEPT !.raised = RaiseException]
        ELSE IF made.raised # NoRaise
        THEN [st EXCEPT !.plugins = packed, !.execd = st.execd + made.execd, !.failed = st.failed + 1, !.raised = made.raised]
        ELSE [st EXCEPT !.plugins = Put(packed, f.name, PackAdd(packed[f.name], f.vers, made.ref)),
                        !.execd = st.execd + made.execd]

PropagatesError(st) == st
\* lines 450-452: except Exception ... pass
CatchesError(st) == [st EXCEPT !.raised = NoRaise]

RECURSIVE LoadPluginFiles(_, _, _, _)
\* lines 441-452: every .py file under every root, each under its own try
LoadPluginFiles(files, i, cfg, st) ==
    IF i > Len(files) \/ st.raised # NoRaise
    THEN st
    ELSE LoadPluginFiles(files, i + 1, cfg, CatchesError(LoadPluginFile(st, cfg, files[i])))

(***************************************************************************)
(* Flexistack.run: the dispatcher.                                         *)
(***************************************************************************)
\* line 705: the literal of "if iterration > 5"
DepthBound == 5

ExceedsDepthOffByOne(iterration) == iterration >= DepthBound
\* line 705
ExceedsDepth(iterration) == iterration > DepthBound

NoneLevelAsLeaf(pa, cur_act_level) == FALSE
\* line 708: the key <level>_action is present and holds None
IsIncomplete(pa, cur_act_level) == HasKey(pa, cur_act_level \o "_action") /\ Get(pa, cur_act_level \o "_action") = PyNone

RECURSIVE Descend(_, _, _, _)
\* lines 703-714: the positional loop, entered with iterration iterations
\* behind it.  iters counts the iterations that passed the check of line 705.
Descend(pa, cur_act_level, appender, iterration) ==
    IF ExceedsDepth(iterration + 1)
    THEN [kind |-> "depth", key |-> "", iters |-> iterration]
    ELSE IF ~IsStr(cur_act_level)
    \* cur_act_level + "_action" on a value that is no str: TypeError
    THEN [kind |-> "raise", key |-> "", iters |-> iterration + 1]
    ELSE IF IsIncomplete(pa, cur_act_level)
    THEN [kind |-> "incomplete", key |-> "", iters |-> iterration + 1]
    ELSE IF HasKey(pa, cur_act_level \o "_action")
    THEN Descend(pa, Get(pa, cur_act_level \o "_action"), appender \o cur_act_level \o "/", iterration + 1)
    ELSE [kind |-> "leaf", key |-> appender \o cur_act_level, iters |-> iterration + 1]

\* lines 678-679: the flags of the parsed result that hold True, in the
\* order the for loop meets them
TrueFlags(pa) == SelectSeq(pa, LAMBDA kv : EqTrue(kv[2]))

\* lines 677-679 and 700-714: what the parsed result resolves to
Resolve(pa) ==
    IF ~HasKey(pa, "action")
    \* parsed_args['action']: KeyError
    THEN [kind |-> "raise", key |-> "", iters |-> 0]
    ELSE IF Get(pa, "action") = PyNone
    THEN IF TrueFlags(pa) = <<>>
         THEN [kind |-> "no_flag", key |-> "", iters |-> 0]
         ELSE [kind |-> "flag", key |-> TrueFlags(pa)[1][1], iters |-> 0]
    ELSE Descend(pa, Get(pa, "action"), "", 0)

\* r: what one call of Flexistack.run has done so far
\*   actions   the registry (a call caches the module in its reference)
\*   execd     files executed        calls  FlexiModule calls made
\*   keys      the registry keys looked up, in order
\*   insts, inits, runs   action instances made, init calls, run calls
\*   initret, runret      what init and run returned
\*   raised    the exception under way    returned   the value returned
NotReturned == "<running>"
NotCalled == "<not called>"

FreshRun(actions) == [actions |-> actions, execd |-> 0, calls |-> 0, keys |-> <<>>, insts |-> 0, inits |-> 0, runs |-> 0, initret |-> NotCalled, runret |-> NotCalled, raised |-> NoRaise, returned |-> NotReturned]

Popped(registry, key, ref) == [k \in (DOMAIN registry) \ {key} |-> registry[k]]
\* lines 682 and 717, self.actions[key](self): the registry keeps the
\* reference under its key, and the reference keeps the module it loaded
Cached(registry, key, ref) == Put(registry, key, ref)

\* lines 682-698 and 717-733: look the action up, call the reference, init,
\* and run.  env gives what the action's code does: ctor, init and run are
\* NoRaise/a return value, or what they raise.
Execute(r, key, env, chrono) ==
    LET looked == [r EXCEPT !.keys = Append(r.keys, key)]
        call == FlexiModuleCall(r.actions[key], FALSE, env.ctor)
        made == [looked EXCEPT !.actions = Cached(r.actions, key, call.ref), !.execd = r.execd + call.execd, !.calls = r.calls + 1]
        inited == [made EXCEPT !.insts = r.insts + 1, !.inits = r.inits + 1]
        ran == [inited EXCEPT !.initret = env.init, !.runs = r.runs + 1]
    IN  IF key \notin DOMAIN r.actions
        THEN [looked EXCEPT !.raised = RaiseException]
        ELSE IF call.raised # NoRaise
        THEN [made EXCEPT !.raised = call.raised]
        ELSE IF env.init \in {RaiseException, RaiseBaseException}
        THEN [inited EXCEPT !.raised = env.init]
        ELSE IF EqTrue(env.init)
        THEN IF env.run \in {RaiseException, RaiseBaseException}
             THEN [ran EXCEPT !.raised = env.run]
             ELSE [ran EXCEPT !.runret = env.run, !.returned = env.run]
        \* lines 694-697: with chrono on, the report reads sR1 and sR2, which
        \* only the branch that runs the action assigns: UnboundLocalError
        ELSE IF chrono
        THEN [inited EXCEPT !.initret = env.init, !.raised = RaiseException]
        ELSE [inited EXCEPT !.initret = env.init, !.returned = PyFalse]

ReturnsOnlyOnSuccess(r) == r.runs > 0
\* lines 693 and 698: both branches of the flag's body return
ReturnsAfterFlag(r) == TRUE

RECURSIVE OptionalScan(_, _, _, _, _)
\* lines 678-698: the for loop over the parsed result
OptionalScan(pa, i, r, env, chrono) ==
    IF i > Len(pa) \/ r.raised # NoRaise \/ r.returned # NotReturned
    THEN r
    ELSE IF EqTrue(pa[i][2])
    THEN LET done == Execute(r, pa[i][1], env, chrono)
         IN  IF done.raised # NoRaise \/ ReturnsAfterFlag(done)
             THEN done
             ELSE OptionalScan(pa, i + 1, [done EXCEPT !.returned = NotReturned], env, chrono)
    ELSE OptionalScan(pa, i + 1, r, env, chrono)

CatchesKeyErrorOnly(r) == r.raised = RaiseException /\ r.keys # <<>> /\ r.insts = 0 /\ r.calls = 0
\* line 734: except Exception
Catches(r) == r.raised = RaiseException

\* the for loop of line 678 ends without a return: the function falls off
\* its end
FallsOff == PyNone

Escaped == "<raised>"

\* lines 677-733: the body of the try block, for a parsed result that
\* resolves to t
TryBody(pa, t, actions, env, chrono) ==
    IF t.kind = "raise" THEN [FreshRun(actions) EXCEPT !.raised = RaiseException]
    ELSE IF t.kind \in {"depth", "incomplete"} THEN [FreshRun(actions) EXCEPT !.returned = PyFalse]
    ELSE IF t.kind = "leaf" THEN Execute(FreshRun(actions), t.key, env, chrono)
    ELSE OptionalScan(pa, 1, FreshRun(actions), env, chrono)

\* how the dispatch ended
Outcome(r, t) ==
    IF r.raised # NoRaise THEN "exception"
    ELSE IF t.kind \in {"depth", "incomplete", "no_flag"} THEN t.kind
    ELSE IF r.runs > 0 THEN "ran" ELSE "init_rejected"

\* lines 734-736 and the end of the function: what the caller gets
Returned(r) ==
    IF r.raised # NoRaise THEN IF Catches(r) THEN PyFalse ELSE Escaped
    ELSE IF r.returned = NotReturned THEN FallsOff
    ELSE r.returned

Handled(r, t) == [actions |-> r.actions, execd |-> r.execd, calls |-> r.calls, keys |-> r.keys, insts |-> r.insts, inits |-> r.inits, runs |-> r.runs, initret |-> r.initret, runret |-> r.runret, raised |-> r.raised, returned |-> Returned(r), outcome |-> Outcome(r, t), iters |-> t.iters]

Resolved(pa, t, actions, env, chrono) == Handled(TryBody(pa, t, actions, env, chrono), t)

\* Flexistack.run, lines 658-736
RunBody(pa, actions, env, chrono) == Resolved(pa, Resolve(pa), actions, env, chrono)

(***************************************************************************)
(* What argparse hands to the dispatcher (parse_arguments, lines 646-654): *)
(* vars() of the namespace.  The top parser sets action and its flags; the *)
(* parser of every group chosen sets <group>_action, to the next choice or *)
(* to None when the command line ends at the group.                        *)
(***************************************************************************)
RECURSIVE SubParse(_, _, _, _)
SubParse(pa, tokens, i, complete) ==
    IF i > Len(tokens)
    THEN pa
    ELSE IF i < Len(tokens)
    THEN SubParse(SetKey(pa, tokens[i] \o "_action", tokens[i + 1]), tokens, i + 1, complete)
    ELSE IF complete THEN pa ELSE SetKey(pa, tokens[i] \o "_action", PyNone)

ParseKnownArgs(flagvals, tokens, complete) == SubParse(<< <<"action", IF tokens = <<>> THEN PyNone ELSE tokens[1]>> >> \o flagvals, tokens, 1, complete)

RECURSIVE Leaves(_, _)
\* the positional leaves of a tree that sit under manifest'd directories only
Leaves(entries, reldirs) ==
    UNION { LET n == entries[i]
            IN  IF IsActionFile(n) /\ n.tag = "positional" THEN {[dirs |-> reldirs, name |-> Command(n)]}
                ELSE IF n.kind = "dir" /\ n.manifest = "ok" THEN Leaves(n.entries, Append(reldirs, n.stem))
                ELSE {} : i \in 1..Len(entries) }

RECURSIVE OptionalLeaves(_, _)
\* the optional actions of a tree that sit under manifest'd directories only
OptionalLeaves(entries, reldirs) ==
    UNION { LET n == entries[i]
            IN  IF IsActionFile(n) /\ n.tag = "optional" THEN {[dirs |-> reldirs, name |-> Command(n)]}
                ELSE IF n.kind = "dir" /\ n.manifest = "ok" THEN OptionalLeaves(n.entries, Append(reldirs, n.stem))
                ELSE {} : i \in 1..Len(entries) }

\* the optional-flag actions of a root directory, in listing order
RootFlags(entries) == LET files == SelectSeq(entries, LAMBDA n : IsActionFile(n) /\ n.tag = "optional") IN [i \in 1..Len(files) |-> Command(files[i])]

\* a parsed result that follows a cycle of levels
CyclicArgs == << <<"action", "A">>, <<"A_action", "B">>, <<"B_action", "A">> >>

\* parsed results no command line produces
MalformedArgs == { CyclicArgs,
                   << >>,
                   << <<"action", "ghost">> >>,
                   << <<"action", PyTrue>> >>,
                   << <<"action", PyNone>>, <<"debug", PyTrue>> >> }

\* the parsed results handed to Flexistack.run for a tree
ParsedResults(root) ==
    LET flags == RootFlags(root.entries)
        off == [i \in 1..Len(flags) |-> <<flags[i], PyFalse>>]
        leaves == Leaves(root.entries, <<>>)
    IN  { ParseKnownArgs(off, Append(l.dirs, l.name), TRUE) : l \in leaves }
        \cup UNION { { ParseKnownArgs(off, SubSeq(l.dirs, 1, j), FALSE) : j \in 1..Len(l.dirs) } : l \in leaves }
        \cup { ParseKnownArgs([i \in 1..Len(flags) |-> <<flags[i], v[i]>>], <<>>, TRUE) : v \in [1..Len(flags) -> {PyTrue, PyFalse}] }
        \* a flag of a group's parser, given after the group: "generate --fast"
        \cup { SetKey(ParseKnownArgs(off, l.dirs, FALSE), l.name, PyTrue) : l \in { o \in OptionalLeaves(root.entries, <<>>) : o.dirs # <<>> } }
        \cup MalformedArgs

(***************************************************************************)
(* The trees and plugin files of the model.                                *)
(***************************************************************************)
DirName(i) == "d" \o ToString(i)

RECURSIVE Chain(_, _, _)
\* k nested grouping directories d1/../dk around one leaf
Chain(i, k, leaf) == IF i > k THEN <<leaf>> ELSE << DirEntry(DirName(i), "ok", i, Chain(i + 1, k, leaf)) >>

OptionalFiles == << FileEntry("version", "optional", TRUE) >>

ChainTree(k, ok) == [path |-> "actions", entries |-> OptionalFiles \o Chain(1, k, FileEntry("leaf", "positional", ok))]

RECURSIVE Reverse(_)
Reverse(seq) == IF seq = <<>> THEN <<>> ELSE Append(Reverse(Tail(seq)), Head(seq))

\* the example application's shape: two grouping directories listed against
\* their z-index and ahead of the root's action files, a directory without a
\* manifest (with a manifest'd directory inside it), an optional action
\* inside a grouping directory, and a leaf named like its directory (db/db.py)
MixedEntries ==
    << DirEntry("hidden", "none", 0, << FileEntry("ghost", "positional", TRUE),
                                        DirEntry("deep", "ok", 1, << FileEntry("buried", "positional", TRUE) >>) >>),
       FileEntry("__init__", "none", TRUE),
       DirEntry("generate", "ok", 2, << FileEntry("random-string", "positional", TRUE), FileEntry("fast", "optional", TRUE) >>),
       FileEntry("notes", "none", TRUE),
       DirEntry("db", "ok", 1, << FileEntry("dump", "positional", TRUE), FileEntry("db", "positional", TRUE) >>),
       FileEntry("version", "optional", TRUE),
       FileEntry("about", "optional", TRUE),
       FileEntry("shuffle", "positional", TRUE) >>

\* listed as above (k = 0) or in the opposite order (k = 1)
MixedTree(k) == [path |-> "actions", entries |-> IF k = 0 THEN MixedEntries ELSE Reverse(MixedEntries)]

\* a tree with a manifest that lacks z-index
BrokenTree == [path |-> "actions", entries |->
    << FileEntry("version", "optional", TRUE),
       DirEntry("bad", "bad", 0, << FileEntry("leaf", "positional", TRUE) >>),
       FileEntry("shuffle", "positional", TRUE) >>]

\* the trees of the model, by name: chains of 0..MaxDirs directories, a
\* chain whose leaf file raises when executed, and the trees above
Trees == { [shape |-> "chain", k |-> k, ok |-> TRUE] : k \in 0..MaxDirs }
         \cup { [shape |-> "chain", k |-> 1, ok |-> FALSE], [shape |-> "mixed", k |-> 0, ok |-> TRUE], [shape |-> "mixed", k |-> 1, ok |-> TRUE], [shape |-> "broken", k |-> 0, ok |-> TRUE] }

\* the root directory a name stands for
Root(t) == IF t.shape = "chain" THEN ChainTree(t.k, t.ok) ELSE IF t.shape = "mixed" THEN MixedTree(t.k) ELSE BrokenTree

\* a second root directory: the same relative paths once more, and one action
\* of its own
SecondRoot(t) == [path |-> "more", entries |-> Append(Root(t).entries, FileEntry("extra", "positional", TRUE))]

\* the trees that come with a second root: a root of files only and a root
\* with a grouping directory
TwoRootTrees == { [shape |-> "chain", k |-> 0, ok |-> TRUE], [shape |-> "chain", k |-> 1, ok |-> TRUE] }

\* the dir_paths load_actions may be given
RootLists(t) == IF t \in TwoRootTrees THEN { <<Root(t)>>, <<Root(t), SecondRoot(t)>> } ELSE { <<Root(t)>> }

\* the platforms and trees of the model: every tree on POSIX, and a tree
\* with nested grouping directories on Windows as well
Worlds == { [sep |-> "/", tree |-> t] : t \in Trees }
          \cup { [sep |-> "\\", tree |-> [shape |-> "chain", k |-> 2, ok |-> TRUE]] }

\* the plugin roots' .py files in os.walk order: three versions of gen (among
\* them "0.9" and "0.10"), a second file that declares gen 0.9, a plugin
\* whose file raises when executed, two files without a usable tag, and a
\* plugin whose tag gives the version as the integer literal 2
PluginFiles == << PluginFile("plugins/gen/v0.9/gen.py", "plugin", "gen", <<"0", ".", "9">>, TRUE),
                  PluginFile("plugins/readme.py", "none", "", <<>>, TRUE),
                  PluginFile("plugins/gen/v0.10/gen.py", "plugin", "gen", <<"0", ".", "1", "0">>, TRUE),
                  PluginFile("plugins/broken.py", "malformed", "", <<>>, TRUE),
                  PluginFile("plugins/io/io.py", "plugin", "io", <<"2">>, FALSE),
                  PluginFile("plugins/gen/old/gen.py", "plugin", "gen", <<"0", ".", "0", "9">>, TRUE),
                  PluginFile("plugins/gen/next/gen.py", "plugin", "gen", <<"0", ".", "9">>, TRUE),
                  PluginFile("plugins/num/num.py", "plugin", "num", IntLiteral(<<"2">>), TRUE) >>

\* the same files as os.walk hands them over in the given order
Listing(order) == [i \in 1..Len(order) |-> PluginFiles[order[i]]]

\* the orders in which os.walk may list the plugin files: the one above, and
\* one that ends on another version of gen and on the other file of gen 0.9
PluginListings == { PluginFiles, Listing(<<4, 5, 6, 7, 8, 1, 2, 3>>) }

\* the projects whose plugin directory holds the files above; the plugin
\* directory of the other projects holds no file
PluginTrees == { [shape |-> "chain", k |-> 0, ok |-> TRUE] }

\* the listings os.walk may give of a project's plugin directory
ListingsOf(t) == IF t \in PluginTrees THEN PluginListings ELSE { <<>> }

(***************************************************************************)
(* The state.                                                              *)
(***************************************************************************)
VARIABLES
    sep,        \* os.sep of the platform
    lazyload,   \* Flexistack.lazyload (line 335)
    chrono,     \* Flexistack.chrono (line 334)
    tree,       \* the action root directory on disk (one of Trees)
    actions,    \* Flexistack.actions: path -> FlexiModule (a class attribute, line 308)
    plugins,    \* Flexistack.plugins: name -> FlexiModPack (a class attribute, line 309)
    grammar,    \* the calls made on the argparse parser tree, in order
    otherGrammar, \* the same for the parser of a second Flexistack of the process
    fileExecs,  \* how many times a discovered file has been executed
    refCalls,   \* how many times a FlexiModule has been called
    steps,      \* handler calls made
    dispatches, \* calls of Flexistack.run made
    last        \* what the last handler call did

vars == <<sep, lazyload, chrono, tree, actions, plugins, grammar, otherGrammar, fileExecs, refCalls, steps, dispatches, last>>

cfg == [sep |-> sep, lazyload |-> lazyload]

\* Flexistack.__init__ (lines 322-370): empty registries, a fresh parser
Init ==
    /\ \E w \in Worlds : sep = w.sep /\ tree = w.tree
    /\ lazyload \in BOOLEAN
    /\ chrono \in BOOLEAN
    /\ actions = EmptyDict
    /\ plugins = EmptyDict
    /\ grammar = <<>>
    /\ otherGrammar = <<>>
    /\ fileExecs = 0
    /\ refCalls = 0
    /\ steps = 0
    /\ dispatches = 0
    /\ last = [op |-> "init", failed |-> 0]

\* line 616: add_subparsers on a parser that has a subparser group already
\* ends in parser.error
HasSubparsers == \E i \in 1..Len(grammar) : grammar[i].op = "add_subparsers" /\ grammar[i].on = ""

\* Flexistack.load_actions(dir_paths), lines 607-622.  strict tells whether
\* the interpreter's argparse refuses a subcommand name a second time.
LoadActions ==
    /\ steps < MaxSteps
    /\ \E roots \in RootLists(tree) : \E strict \in BOOLEAN :
       LET top == Event("add_subparsers", "dest", "", "action", "", 0)
           st == LoadRoots(roots, 1, [sep |-> sep, lazyload |-> lazyload, strict |-> strict],
                           [actions |-> actions, grammar |-> Append(grammar, top), execd |-> 0, failed |-> 0, raised |-> NoRaise])
       IN  IF HasSubparsers
           THEN /\ last' = [op |-> "load_actions", raised |-> RaiseBaseException, failed |-> 0, roots |-> Len(roots)]
                /\ UNCHANGED <<actions, grammar, fileExecs>>
           ELSE /\ actions' = st.actions
                /\ grammar' = st.grammar
                /\ fileExecs' = fileExecs + st.execd
                /\ last' = [op |-> "load_actions", raised |-> st.raised, failed |-> st.failed, roots |-> Len(roots)]
    /\ steps' = steps + 1
    /\ UNCHANGED <<sep, lazyload, chrono, tree, otherGrammar, plugins, refCalls, dispatches>>

\* Flexistack.load_plugins(dir_paths), lines 432-452, on a tree that os.walk
\* lists as files; before is the listing of the load_plugins call right before
\* this one, if that was the call before
LoadPlugins ==
    /\ steps < MaxSteps
    /\ \E files \in ListingsOf(tree) :
       LET st == LoadPluginFiles(files, 1, cfg, [plugins |-> plugins, execd |-> 0, failed |-> 0, raised |-> NoRaise])
       IN  /\ plugins' = st.plugins
           /\ fileExecs' = fileExecs + st.execd
           /\ last' = [op |-> "load_plugins", raised |-> st.raised, failed |-> st.failed, files |-> files,
                       before |-> IF last.op = "load_plugins" THEN last.files ELSE <<>>]
    /\ steps' = steps + 1
    /\ UNCHANGED <<sep, lazyload, chrono, tree, otherGrammar, actions, grammar, refCalls, dispatches>>

\* the references of a registry whose file raised while a handler executed it
FailedExecs(before, after) == Cardinality({ key \in DOMAIN before : before[key].m = PyNone /\ after[key].m = ModulePartial })

InitOutcomes == InitValues \cup {RaiseException, RaiseBaseException}
RunOutcomes == RunValues \cup {RaiseException, RaiseBaseException}

\* whether the dispatch of pa gets as far as the action class's constructor,
\* and as far as an action instance (what the constructor, init and run do
\* is chosen only where it is reached)
ReachesCtor(pa) ==
    LET t == Resolve(pa)
    IN  /\ t.kind \in {"flag", "leaf"}
        /\ t.key \in DOMAIN actions
        /\ FlexiModuleCall(actions[t.key], FALSE, NoRaise).raised = NoRaise

MakesInstance(pa, ctor) == ReachesCtor(pa) /\ ctor = NoRaise

\* Flexistack.run(project_dir, parsed_args), lines 658-736
Run ==
    /\ steps < MaxSteps
    /\ dispatches < MaxDispatches
    /\ \E pa \in ParsedResults(Root(tree)) :
       \E ctor \in IF ReachesCtor(pa) THEN {NoRaise, RaiseException} ELSE {NoRaise} :
       \E init \in IF MakesInstance(pa, ctor) THEN InitOutcomes ELSE {NotCalled} :
       \E run \in IF init = PyTrue THEN RunOutcomes ELSE IF init \in InitValues /\ EqTrue(init) THEN {PyTrue} ELSE {NotCalled} :
          \E r \in {RunBody(pa, actions, [ctor |-> ctor, init |-> init, run |-> run], chrono)} :
              /\ actions' = r.actions
              /\ fileExecs' = fileExecs + r.execd
              /\ refCalls' = refCalls + r.calls
              /\ last' = [op |-> "run", pargs |-> pa, outcome |-> r.outcome, iters |-> r.iters,
                          keys |-> r.keys, insts |-> r.insts, inits |-> r.inits, runs |-> r.runs,
                          initret |-> r.initret, runret |-> r.runret, raised |-> r.raised,
                          returned |-> r.returned, failed |-> FailedExecs(actions, r.actions)]
    /\ steps' = steps + 1
    /\ dispatches' = dispatches + 1
    /\ UNCHANGED <<sep, lazyload, chrono, tree, otherGrammar, plugins, grammar>>

\* FlexiModule.__call__ on a registered action reference, lines 155-171
CallModule ==
    /\ steps < MaxSteps
    /\ \E key \in DOMAIN actions : \E as_module \in BOOLEAN :
       \E ctor \in IF ~as_module /\ FlexiModuleCall(actions[key], FALSE, NoRaise).raised = NoRaise THEN {NoRaise, RaiseException} ELSE {NoRaise} :
          \E call \in {FlexiModuleCall(actions[key], as_module, ctor)} :
              /\ actions' = Put(actions, key, call.ref)
              /\ fileExecs' = fileExecs + call.execd
              /\ last' = [op |-> "call", key |-> key, as_module |-> as_module, raised |-> call.raised, ret |-> call.ret,
                          failed |-> FailedExecs(actions, actions')]
    /\ refCalls' = refCalls + 1
    /\ steps' = steps + 1
    /\ UNCHANGED <<sep, lazyload, chrono, tree, otherGrammar, plugins, grammar, dispatches>>

\* FlexiModPack.versions() on a registered plugin, lines 200-211
ListVersions ==
    /\ steps < MaxSteps
    /\ \E name \in DOMAIN plugins : \E listed \in {Versions(plugins[name])} :
          last' = [op |-> "versions", name |-> name, raised |-> listed.raised, ret |-> listed.ret, failed |-> 0]
    /\ steps' = steps + 1
    /\ UNCHANGED <<sep, lazyload, chrono, tree, otherGrammar, actions, plugins, grammar, fileExecs, refCalls, dispatches>>

\* FlexiModPack.__call__ on a registered plugin (latest resolution), lines
\* 191-196.  again and before tell whether the call before this one was a
\* latest resolution of the same plugin, and which version it resolved.
CallLatest ==
    /\ steps < MaxSteps
    /\ \E name \in DOMAIN plugins : \E as_module \in BOOLEAN :
       \E ctor \in IF ~as_module /\ FlexiModPackCall(plugins[name], FALSE, NoRaise).raised = NoRaise THEN {NoRaise, RaiseException} ELSE {NoRaise} :
          \E call \in {FlexiModPackCall(plugins[name], as_module, ctor)} :
              /\ plugins' = Put(plugins, name, call.pack)
              /\ fileExecs' = fileExecs + call.execd
              /\ refCalls' = refCalls + (IF call.version = PyNone THEN 0 ELSE 1)
              /\ last' = [op |-> "latest", name |-> name, as_module |-> as_module, version |-> call.version,
                          raised |-> call.raised, ret |-> call.ret,
                          failed |-> IF call.version # PyNone /\ Get(plugins[name], call.version).m = PyNone
                                        /\ Get(call.pack, call.version).m = ModulePartial THEN 1 ELSE 0,
                          again |-> last.op = "latest" /\ last.name = name,
                          before |-> IF last.op = "latest" /\ last.name = name THEN last.version ELSE PyNone]
    /\ steps' = steps + 1
    /\ UNCHANGED <<sep, lazyload, chrono, tree, otherGrammar, actions, grammar, dispatches>>

\* FlexiModules.__call__ on the action or the plugin registry, lines 223-228
CallRegistry ==
    /\ steps < MaxSteps
    /\ \E which \in {"actions", "plugins"} : \E as_module \in BOOLEAN :
       \E call \in {FlexiModulesCall(IF which = "actions" THEN actions ELSE plugins, as_module, 1)} :
          last' = [op |-> "registry", which |-> which, as_module |-> as_module, raised |-> call.raised, ret |-> call.ret,
                   frames |-> call.frames, failed |-> 0]
    /\ steps' = steps + 1
    /\ UNCHANGED <<sep, lazyload, chrono, tree, otherGrammar, actions, plugins, grammar, fileExecs, refCalls, dispatches>>

Next == LoadActions \/ LoadPlugins \/ Run \/ CallModule \/ ListVersions \/ CallLatest \/ CallRegistry

Spec == Init /\ [][Next]_vars

(***************************************************************************)
(* A process with a second Flexistack.  actions and plugins are assigned   *)
(* in the class body (lines 308-309) and __init__ assigns neither, so the  *)
(* second instance's self.actions and self.plugins are the objects of the  *)
(* first; __init__ gives every instance a parser of its own (line 338).    *)
(***************************************************************************)
\* line 616 on the second instance's parser
OtherHasSubparsers == \E i \in 1..Len(otherGrammar) : otherGrammar[i].op = "add_subparsers" /\ otherGrammar[i].on = ""

\* load_actions(dir_paths) on the second instance, lines 607-622.  The first
\* __init__ cut the arguments after "--" off sys.argv (line 329), so the
\* second instance reads no --no-lazy-load and loads lazily (line 335).
LoadActionsOther ==
    /\ steps < MaxSteps
    /\ \E roots \in RootLists(tree) : \E strict \in BOOLEAN :
       LET top == Event("add_subparsers", "dest", "", "action", "", 0)
           st == LoadRoots(roots, 1, [sep |-> sep, lazyload |-> TRUE, strict |-> strict],
                           [actions |-> actions, grammar |-> Append(otherGrammar, top), execd |-> 0, failed |-> 0, raised |-> NoRaise])
       IN  IF OtherHasSubparsers
           THEN /\ last' = [op |-> "load_actions_other", raised |-> RaiseBaseException, failed |-> 0, roots |-> Len(roots)]
                /\ UNCHANGED <<actions, otherGrammar, fileExecs>>
           ELSE /\ actions' = st.actions
                /\ otherGrammar' = st.grammar
                /\ fileExecs' = fileExecs + st.execd
                /\ last' = [op |-> "load_actions_other", raised |-> st.raised, failed |-> st.failed, roots |-> Len(roots)]
    /\ steps' = steps + 1
    /\ UNCHANGED <<sep, lazyload, chrono, tree, plugins, grammar, refCalls, dispatches>>

NextTwo == Next \/ LoadActionsOther

TwoInstances == Init /\ [][NextTwo]_vars

(***************************************************************************)
(* Properties of the dispatcher.                                           *)
(***************************************************************************)
\* the last handler call was a dispatch
Dispatched == last.op = "run"

\* the dispatch called init, and init returned a value
InitReturned == Dispatched /\ last.inits > 0 /\ last.initret \in InitValues

\* the parsed result took the positional path
Positional(pa) == HasKey(pa, "action") /\ Get(pa, "action") # PyNone

\* C1: when the resolved action's init returns a falsy value, run is not
\* invoked and the dispatch returns False, on the optional-flag path and on
\* the positional path.
C1_FalsyInitNeverRuns == (InitReturned /\ ~Truthy(last.initret)) => (last.runs = 0 /\ last.returned = PyFalse)

\* a positional dispatch whose action's init returned None
C1_Witness == InitReturned /\ last.initret = PyNone /\ Positional(last.pargs) /\ last.runs = 0

\* C2 (as claimed): when init returns any truthy value, run is called exactly
\* once after init, and the value run returns is the value the dispatch
\* returns.
C2_TruthyInitRuns == (InitReturned /\ Truthy(last.initret)) => (last.runs = 1 /\ (last.runret # NotCalled => last.returned = last.runret))

\* the positional leaves load_actions registered, with the key each was
\* registered under (the key of the reference to the leaf's file)
RegisteredLeaves == { l \in Leaves(Root(tree).entries, <<>>) : \E key \in DOMAIN actions : actions[key].p = ModulePath(Root(tree).path, l.dirs, [stem |-> l.name, ext |-> ".py"]) }

RegisteredKey(l) == CHOOSE key \in DOMAIN actions : actions[key].p = ModulePath(Root(tree).path, l.dirs, [stem |-> l.name, ext |-> ".py"])

\* the parsed result that selects leaf l: action=d1, d1_action=d2, ...,
\* dk_action=name, and no name_action key
Selects(pa, l) ==
    LET path == Append(l.dirs, l.name)
    IN  /\ Positional(pa)
        /\ Get(pa, "action") = path[1]
        /\ \A i \in 1..Len(l.dirs) : HasKey(pa, path[i] \o "_action") /\ Get(pa, path[i] \o "_action") = path[i + 1]
        /\ ~HasKey(pa, l.name \o "_action")

\* C3 (as claimed): dispatching the parsed result that selects a registered
\* positional leaf looks up exactly the key load_actions registered it under.
C3_DispatchKeyIsRegisteredKey == Dispatched => \A l \in RegisteredLeaves : Selects(last.pargs, l) => last.keys = <<RegisteredKey(l)>>

\* C4: the positional loop always ends within the bound; on the cyclic parsed
\* result it fails after exactly DepthBound iterations, returning False
\* without making an action instance.
C4_CycleFailsAtBound ==
    Dispatched => /\ last.iters <= DepthBound
                  /\ last.pargs = CyclicArgs => (last.outcome = "depth" /\ last.iters = DepthBound /\ last.returned = PyFalse /\ last.insts = 0 /\ last.keys = <<>>)

\* a dispatch of the cyclic parsed result that hit the depth bound
C4_Witness == Dispatched /\ last.pargs = CyclicArgs /\ last.outcome = "depth"

\* C5 (as claimed): no exception escapes Flexistack.run; whatever is raised
\* during the dispatch is caught and the call returns False.
C5_NoExceptionEscapes == (Dispatched /\ last.raised # NoRaise) => last.returned = PyFalse

\* C5 (amended): an exception that derives from Exception is caught and the
\* call returns False; one that derives from BaseException only (SystemExit,
\* KeyboardInterrupt) reaches the caller.
C5_ExceptionsBecomeFalse ==
    Dispatched => /\ last.raised = RaiseException => last.returned = PyFalse
                  /\ last.raised = RaiseBaseException => last.returned = Escaped

\* an Exception raised by the action's run, caught by the dispatcher
C5_Witness == Dispatched /\ last.raised = RaiseException /\ last.runs = 1 /\ last.returned = PyFalse

RECURSIVE ReachesNone(_, _, _)
\* within n levels from cur, the parsed result holds <level>_action = None
ReachesNone(pa, cur, n) ==
    /\ n > 0
    /\ IsStr(cur)
    /\ HasKey(pa, cur \o "_action")
    /\ \/ Get(pa, cur \o "_action") = PyNone
       \/ ReachesNone(pa, Get(pa, cur \o "_action"), n - 1)

\* C6: in positional dispatch, a level whose <level>_action key holds None
\* ends the dispatch in the incomplete-command failure: False is returned and
\* no action is looked up, instantiated, initialised or run.
C6_NoneLevelIsIncomplete ==
    (Dispatched /\ Positional(last.pargs) /\ ReachesNone(last.pargs, Get(last.pargs, "action"), DepthBound))
        => (last.outcome = "incomplete" /\ last.returned = PyFalse /\ last.keys = <<>> /\ last.insts = 0 /\ last.inits = 0 /\ last.runs = 0)

\* a command line that stops at a group two levels down
C6_Witness == Dispatched /\ Positional(last.pargs) /\ last.outcome = "incomplete" /\ last.iters = 2

\* C7 (as claimed): with action = None and no flag true, the dispatch returns
\* the value False and makes no action instance.
C7_NoFlagReturnsFalse ==
    (Dispatched /\ HasKey(last.pargs, "action") /\ Get(last.pargs, "action") = PyNone /\ TrueFlags(last.pargs) = <<>>)
        => (last.returned = PyFalse /\ last.insts = 0)

\* C8: one dispatch invokes init and run on at most one action instance, also
\* when several flags are true at once; a dispatch that returns the action's
\* result has invoked them on exactly one.
C8_ExactlyOneAction ==
    Dispatched => /\ Len(last.keys) <= 1 /\ last.insts <= 1 /\ last.inits <= 1 /\ last.runs <= 1
                  /\ last.outcome = "ran" => (last.insts = 1 /\ last.inits = 1 /\ last.runs = 1 /\ last.returned = last.runret)

\* two flags true at once, one action rejected by its init
C8_Witness == Dispatched /\ Len(TrueFlags(last.pargs)) = 2 /\ last.insts = 1 /\ last.outcome = "init_rejected"

(***************************************************************************)
(* Properties of FlexiModule.                                              *)
(***************************************************************************)
\* every reference the registries hold
References == { actions[key] : key \in DOMAIN actions } \cup UNION { { plugins[n][i][2] : i \in DOMAIN plugins[n] } : n \in DOMAIN plugins }

\* C9: a FlexiModule executes its file at most once, however often and in
\* whatever mode it is called; a later call reuses the cached module.
C9_ExecutedAtMostOnce == \A ref \in References : ref.execs <= 1

\* a reference called twice that executed its file once
C9_Witness == \E ref \in References : ref.calls >= 2 /\ ref.execs = 1

\* C10 (as claimed): before the first call of a reference no discovered file
\* has been executed, whatever the configuration.
C10_DiscoveryExecutesNothing == refCalls = 0 => fileExecs = 0

\* C10 (amended): with lazy loading on, constructing the references during
\* discovery executes no file: before the first call of a reference no
\* discovered file has been executed and no reference holds a module.
C10_LazyDiscoveryExecutesNothing == (lazyload /\ refCalls = 0) => (fileExecs = 0 /\ \A ref \in References : ref.m = PyNone /\ ref.execs = 0)

\* both discoveries done under lazy loading, no reference called yet
C10_Witness == lazyload /\ refCalls = 0 /\ DOMAIN actions # {} /\ \E n \in DOMAIN plugins : DOMAIN plugins[n] # {}

\* C11 (as claimed): a file that raises when it is first executed raises in a
\* FlexiModule call, after discovery registered its reference, and the caller
\* of that call gets the failure.
C11_LoadFailureIsDeferred ==
    last.failed > 0 => /\ last.op \in {"call", "latest", "run"}
                       /\ last.raised = RaiseException
                       /\ \E ref \in References : ref.m = ModulePartial /\ ref.execs = 1

\* C11 (amended): with lazy loading on, a file that raises when it is first
\* executed raises in a FlexiModule call, after discovery registered its
\* reference, and the caller of that call gets the failure.  With lazy loading
\* off the file raises in the constructor, during discovery: load_plugins
\* swallows the failure, load_actions passes it on, and neither registers the
\* reference.
C11_LazyLoadFailureIsDeferred ==
    /\ (lazyload /\ last.failed > 0) => /\ last.op \in {"call", "latest", "run"}
                                        /\ last.raised = RaiseException
                                        /\ \E ref \in References : ref.m = ModulePartial /\ ref.execs = 1
    /\ (~lazyload /\ last.failed > 0) => /\ last.op \in {"load_actions", "load_plugins"}
                                         /\ last.op = "load_plugins" => last.raised = NoRaise
                                         /\ last.op = "load_actions" => last.raised = RaiseException
                                         /\ \A ref \in References : ref.m # ModulePartial

\* a latest resolution under lazy loading whose file raised
C11_Witness == lazyload /\ last.op = "latest" /\ last.failed = 1 /\ last.raised = RaiseException

(***************************************************************************)
(* Properties of FlexiModPack.                                             *)
(***************************************************************************)
\* the place of a version in a list of versions (0 when absent)
IndexOf(versions, version) == IF \E i \in 1..Len(versions) : versions[i] = version THEN CHOOSE i \in 1..Len(versions) : versions[i] = version ELSE 0

\* C12: versions() returns every key of the pack exactly once, in descending
\* order of the keys read as tuples of integers; "0.10" comes before "0.9".
C12_VersionsSortedNumerically ==
    (last.op = "versions" /\ last.raised = NoRaise) =>
        /\ Len(last.ret) = Len(plugins[last.name])
        /\ \A i \in DOMAIN plugins[last.name] : IndexOf(last.ret, plugins[last.name][i][1]) > 0
        /\ \A i, j \in 1..Len(last.ret) : i < j => /\ last.ret[i] # last.ret[j]
                                                   /\ ~TupleLess(VersionKey(last.ret[i]), VersionKey(last.ret[j]))
        /\ (HasKey(plugins[last.name], <<"0", ".", "9">>) /\ HasKey(plugins[last.name], <<"0", ".", "1", "0">>))
               => IndexOf(last.ret, <<"0", ".", "1", "0">>) < IndexOf(last.ret, <<"0", ".", "9">>)

\* versions() of a pack that holds "0.9" and "0.10"
C12_Witness == last.op = "versions" /\ IndexOf(last.ret, <<"0", ".", "9">>) > 0 /\ IndexOf(last.ret, <<"0", ".", "1", "0">>) > 0

\* C13: a latest resolution calls the reference stored under the numerically
\* highest version key; a second one right after it resolves the same version.
C13_LatestIsHighestVersion ==
    (last.op = "latest" /\ last.version # PyNone) =>
        /\ \A i \in DOMAIN plugins[last.name] : ~TupleLess(VersionKey(last.version), VersionKey(plugins[last.name][i][1]))
        /\ HasKey(plugins[last.name], <<"0", ".", "1", "0">>) => last.version = <<"0", ".", "1", "0">>
        /\ Get(plugins[last.name], last.version).calls >= 1
        /\ (last.again /\ last.before # PyNone) => last.version = last.before

\* the second of two consecutive latest resolutions of a plugin with several
\* versions
C13_Witness == last.op = "latest" /\ last.again /\ last.before # PyNone /\ Len(plugins[last.name]) > 1

(***************************************************************************)
(* Properties of load_plugins.                                             *)
(***************************************************************************)
\* file f declares the plugin (name, version)
Declares(f, name, version) == f.tag = "plugin" /\ f.name = name /\ f.vers = version

\* the file visited last among those that declare (name, version)
LastDeclaring(files, name, version) == files[CHOOSE i \in 1..Len(files) : Declares(files[i], name, version) /\ \A j \in (i + 1)..Len(files) : ~Declares(files[j], name, version)]

\* C14: of two files that declare the same plugin name and version, the
\* registry holds the reference to the one visited last, under one entry for
\* that version.
C14_DuplicateLastWins ==
    last.op = "load_plugins" => \A name \in DOMAIN plugins : \A i \in DOMAIN plugins[name] :
        /\ plugins[name][i][2].p = LastDeclaring(last.files, name, plugins[name][i][1]).path
        /\ \A j \in DOMAIN plugins[name] : plugins[name][j][1] = plugins[name][i][1] => j = i

\* gen 0.9, declared by two files, after discovery
C14_Witness == last.op = "load_plugins" /\ last.files = PluginFiles /\ "gen" \in DOMAIN plugins /\ HasKey(plugins["gen"], <<"0", ".", "9">>) /\ Get(plugins["gen"], <<"0", ".", "9">>).p = "plugins/gen/next/gen.py"

(***************************************************************************)
(* Properties of load_actions.                                             *)
(***************************************************************************)
RECURSIVE ActionFiles(_, _, _, _)
\* the action files of a root that sit under manifest'd directories only,
\* each with its registry key, its path, and the parser and command of its
\* grammar entry
ActionFiles(entries, root, reldirs, separator) ==
    UNION { LET n == entries[i]
            IN  IF IsActionFile(n) /\ n.tag \in {"positional", "optional"}
                THEN {[key |-> ActionName(reldirs, n, separator), path |-> ModulePath(root, reldirs, n),
                       on |-> ParserOf(reldirs), name |-> Command(n), tag |-> n.tag, dirs |-> reldirs]}
                ELSE IF n.kind = "dir" /\ n.manifest = "ok" THEN ActionFiles(n.entries, root, Append(reldirs, n.stem), separator)
                ELSE {} : i \in 1..Len(entries) }

\* the grammar entries made for an action: its subcommand parser or its flag
EntriesFor(on, name) == { i \in 1..Len(grammar) : grammar[i].kind \in {"leaf", "flag"} /\ grammar[i].on = on /\ grammar[i].name = name }

\* the last handler call was load_actions
Loaded == last.op = "load_actions"

\* load_actions was given both roots and went through both
LoadedBothRoots == last.op = "load_actions" /\ last.roots = 2 /\ last.raised = NoRaise /\ "extra" \in DOMAIN actions

\* C15: an action file whose registry path is registered already changes
\* nothing: the registry keeps the reference to the first file, and the path
\* has one grammar entry.
C15_ReRegistrationIsNoOp ==
    Loaded => \A f \in ActionFiles(Root(tree).entries, Root(tree).path, <<>>, sep) :
                  f.key \in DOMAIN actions => /\ actions[f.key].p = f.path
                                              /\ Cardinality(EntriesFor(f.on, f.name)) = 1

\* both roots loaded: the second root's files met their paths registered
C15_Witness == LoadedBothRoots /\ \E f \in ActionFiles(Root(tree).entries, Root(tree).path, <<>>, sep) : f.key \in DOMAIN actions

RECURSIVE HiddenPaths(_, _, _)
\* the directories without a manifest and everything beneath them
HiddenPaths(entries, prefix, hidden) ==
    UNION { LET n == entries[i]
                path == prefix \o "/" \o n.stem \o n.ext
            IN  IF n.kind = "file"
                THEN IF hidden THEN {path} ELSE {}
                ELSE (IF hidden \/ n.manifest = "none" THEN {path} ELSE {})
                     \cup HiddenPaths(n.entries, path, hidden \/ n.manifest = "none") : i \in 1..Len(entries) }

\* every path load_actions may have been given that lies in or beneath a
\* directory without a manifest
Hidden == HiddenPaths(Root(tree).entries, Root(tree).path, FALSE) \cup HiddenPaths(SecondRoot(tree).entries, SecondRoot(tree).path, FALSE)

\* C16: a directory without a manifest is invisible: no subcommand group is
\* made for it or for a directory beneath it, no file at any depth beneath it
\* is in the registry or the grammar; its siblings with a manifest have their
\* group.
C16_ManifestlessIsInvisible ==
    Loaded =>
        /\ \A key \in DOMAIN actions : actions[key].p \notin Hidden
        /\ \A i \in 1..Len(grammar) : grammar[i].kind = "group" => (grammar[i].dir \o "/" \o grammar[i].name) \notin Hidden
        /\ \A i \in 1..Len(grammar) : grammar[i].kind = "leaf" => (grammar[i].dir \o "/" \o grammar[i].name \o ".py") \notin Hidden
        /\ (last.op = "load_actions" /\ last.raised = NoRaise) =>
               \A i \in 1..Len(Root(tree).entries) :
                   (Root(tree).entries[i].kind = "dir" /\ Root(tree).entries[i].manifest = "ok")
                       => \E j \in 1..Len(grammar) : /\ grammar[j].kind = "group"
                                                     /\ grammar[j].dir = Root(tree).path
                                                     /\ grammar[j].name = Root(tree).entries[i].stem

\* a tree with a manifest-less directory and a manifest'd sibling, loaded
C16_Witness ==
    /\ last.op = "load_actions" /\ last.raised = NoRaise
    /\ \E i, k \in 1..Len(Root(tree).entries) :
          /\ Root(tree).entries[i].kind = "dir" /\ Root(tree).entries[i].manifest = "none" /\ Root(tree).entries[i].entries # <<>>
          /\ Root(tree).entries[k].kind = "dir" /\ Root(tree).entries[k].manifest = "ok"
          /\ ParserExists(grammar, "", Root(tree).entries[k].stem)

\* C17: the groups of one directory are added to the grammar in ascending
\* order of their z-index, whatever the order of the listing.
C17_GroupsInZOrder ==
    Loaded => \A i, j \in 1..Len(grammar) :
        (i < j /\ grammar[i].kind = "group" /\ grammar[j].kind = "group" /\ grammar[i].dir = grammar[j].dir)
            => grammar[i].z <= grammar[j].z

\* a directory listed against the z-index of its groups, loaded
C17_Witness ==
    /\ Loaded
    /\ \E a, b \in 1..Len(Root(tree).entries) :
          /\ a < b
          /\ Root(tree).entries[a].kind = "dir" /\ Root(tree).entries[a].manifest = "ok"
          /\ Root(tree).entries[b].kind = "dir" /\ Root(tree).entries[b].manifest = "ok"
          /\ Root(tree).entries[a].z > Root(tree).entries[b].z
          /\ \E i, j \in 1..Len(grammar) :
                /\ i < j
                /\ grammar[i].kind = "group" /\ grammar[i].dir = Root(tree).path /\ grammar[i].name = Root(tree).entries[b].stem
                /\ grammar[j].kind = "group" /\ grammar[j].dir = Root(tree).path /\ grammar[j].name = Root(tree).entries[a].stem

\* C18: every grammar entry made for an action file of a directory comes
\* before the first group of that directory, whatever the order of the
\* listing.
C18_LeavesBeforeGroups ==
    Loaded => \A i, j \in 1..Len(grammar) :
        (grammar[i].kind \in {"leaf", "flag"} /\ grammar[j].kind = "group" /\ grammar[i].dir = grammar[j].dir)
            => i < j

\* a directory that lists a group ahead of an optional action, loaded
C18_Witness ==
    /\ Loaded
    /\ \E a, b \in 1..Len(Root(tree).entries) :
          /\ a < b
          /\ Root(tree).entries[a].kind = "dir" /\ Root(tree).entries[a].manifest = "ok"
          /\ Root(tree).entries[b].kind = "file" /\ Root(tree).entries[b].tag = "optional"
          /\ \E i, j \in 1..Len(grammar) :
                /\ i < j
                /\ grammar[i].kind = "flag" /\ grammar[i].dir = Root(tree).path /\ grammar[i].name = Root(tree).entries[b].stem
                /\ grammar[j].kind = "group" /\ grammar[j].dir = Root(tree).path /\ grammar[j].name = Root(tree).entries[a].stem

\* C19 (as claimed): an optional action is registered under its bare
\* basename, at whatever directory level its file sits.
C19_OptionalUnderBareBasename ==
    Loaded => \A f \in ActionFiles(Root(tree).entries, Root(tree).path, <<>>, sep) :
        (f.tag = "optional" /\ \E key \in DOMAIN actions : actions[key].p = f.path)
            => (f.name \in DOMAIN actions /\ actions[f.name].p = f.path)

\* C20: a file whose inspection fails, or that has no valid plugin tag, costs
\* nothing but itself: load_plugins raises nothing and every plugin file whose
\* reference could be made is registered under its name and version.
C20_PluginDiscoveryIsBestEffort ==
    last.op = "load_plugins" =>
        /\ last.raised = NoRaise
        /\ \A i \in 1..Len(last.files) :
              (last.files[i].tag = "plugin" /\ (lazyload \/ last.files[i].ok))
                  => /\ last.files[i].name \in DOMAIN plugins
                     /\ HasKey(plugins[last.files[i].name], last.files[i].vers)

\* a discovery that met the malformed file and registered the files after it
C20_Witness ==
    /\ last.op = "load_plugins"
    /\ \E i, j \in 1..Len(last.files) : /\ i < j
                                         /\ last.files[i].tag = "malformed"
                                         /\ last.files[j].tag = "plugin"
                                         /\ last.files[j].name \in DOMAIN plugins
                                         /\ HasKey(plugins[last.files[j].name], last.files[j].vers)
                                         /\ Get(plugins[last.files[j].name], last.files[j].vers).p = last.files[j].path

(***************************************************************************)
(* Properties of failure, growth and sharing.                              *)
(***************************************************************************)
\* C21: action discovery is all-or-nothing per root: a first load_actions call
\* on one root that raises while it processes a directory leaves no action of
\* that root in the action registry and no entry for it in the grammar.
C21_FailedRootLeavesNothing ==
    (Loaded /\ steps = 1 /\ last.roots = 1 /\ last.raised = RaiseException) =>
        /\ DOMAIN actions = {}
        /\ \A i \in 1..Len(grammar) : grammar[i].op = "add_subparsers" /\ grammar[i].on = ""

\* the (name, version) pairs of a plugin registry
Pairs(registry) == UNION { { <<n, registry[n][i][1]>> : i \in DOMAIN registry[n] } : n \in DOMAIN registry }

\* C22: the registries only grow: over every handler call, an action path, a
\* plugin name or a (name, version) pair that a registry holds before the call
\* is held after it.
C22_RegistriesOnlyGrow ==
    [][/\ DOMAIN actions \subseteq DOMAIN actions'
       /\ DOMAIN plugins \subseteq DOMAIN plugins'
       /\ Pairs(plugins) \subseteq Pairs(plugins')]_vars

\* a dispatch made after both discoveries filled their registries
C22_Witness == Dispatched /\ DOMAIN actions # {} /\ Pairs(plugins) # {}

\* the contents of a plugin registry: the version set of every name
Contents(registry) == [n \in DOMAIN registry |-> { registry[n][i][1] : i \in DOMAIN registry[n] }]

\* what one load_plugins call on a fresh instance registers from a listing
Discovered(files) == LoadPluginFiles(files, 1, cfg, [plugins |-> EmptyDict, execd |-> 0, failed |-> 0, raised |-> NoRaise]).plugins

\* C23: plugin discovery is idempotent and order-independent on the registry
\* contents: after load_plugins, however often it ran before and in whatever
\* listing orders, the registry maps the names to the version sets that one
\* discovery in any listing order yields.
C23_DiscoveryIsOrderIndependent ==
    last.op = "load_plugins" => \A files \in ListingsOf(tree) : Contents(plugins) = Contents(Discovered(files))

\* a second discovery right after a first one that listed the files otherwise
C23_Witness == last.op = "load_plugins" /\ last.before # <<>> /\ last.before # last.files /\ Pairs(plugins) # {}

\* whether a value read from a tag is a string
IsStrLiteral(value) == value = <<>> \/ value[1] # "<int>"

\* C24: load_plugins registers a plugin only when the metadata of its tag are
\* string literals: after discovery every version key in the plugin registry
\* is a string, and a tag with an integer version has added nothing.
C24_OnlyStringMetadataRegisters ==
    last.op = "load_plugins" =>
        /\ \A pair \in Pairs(plugins) : IsStrLiteral(pair[2])
        /\ \A i \in 1..Len(last.files) : ~IsStrLiteral(last.files[i].vers) => last.files[i].name \notin DOMAIN plugins

\* C25: calling a registry object terminates with a value: FlexiModules.__call__
\* raises nothing and returns an object (of the latest version of the module).
C25_RegistryCallReturns == last.op = "registry" => (last.raised = NoRaise /\ last.ret # PyNone)

\* the parsed result argparse hands over for the command line that names the
\* directories of leaf l and then the leaf, with every root flag off
CommandLine(l) ==
    LET flags == RootFlags(Root(tree).entries)
    IN  ParseKnownArgs([i \in 1..Len(flags) |-> <<flags[i], PyFalse>>], Append(l.dirs, l.name), TRUE)

\* C26: every positional leaf that load_actions registered is dispatchable,
\* at whatever depth and under whatever name: dispatching the parsed result of
\* its command line reaches the registry lookup of the leaf and does not end
\* in the depth-bound failure.
C26_RegisteredLeafIsDispatchable ==
    Dispatched => \A l \in RegisteredLeaves : last.pargs = CommandLine(l) => (last.outcome # "depth" /\ last.keys # <<>>)

\* C27: a FlexiModule call returns an instance or the module only if the
\* target file was executed to completion: no call of a registered reference,
\* directly or through latest resolution, returns a partly executed module.
C27_ReturnsOnlyCompleteModules ==
    (last.op \in {"call", "latest"} /\ last.raised = NoRaise) => last.ret \in {ModuleLoaded, "instance"}

\* the plugin names the files of the model declare
PluginNames == { PluginFiles[i].name : i \in { j \in 1..Len(PluginFiles) : PluginFiles[j].tag = "plugin" } }

\* C28: every plugin name present in the plugin registry maps to a pack with
\* at least one version, in lazy and in eager mode and when a plugin file
\* fails: exists(name) implies that the pack of name is not empty.
C28_RegisteredNamesHaveVersions ==
    \A name \in PluginNames : Exists(plugins, name) => plugins[name] # EmptyPack

\* C29: Flexistack.run leaves the registries unchanged: over every dispatch,
\* whatever the parsed result and the outcome, the action registry keeps its
\* key set and every key its file and class, the plugin registry and the
\* grammar stay as they are, and at most one reference changes (the one the
\* dispatch called, in the module it holds).
C29_DispatchLeavesRegistries ==
    [][dispatches' # dispatches =>
        /\ DOMAIN actions' = DOMAIN actions
        /\ \A key \in DOMAIN actions : actions'[key].p = actions[key].p /\ actions'[key].c = actions[key].c
        /\ \A key, other \in DOMAIN actions : (actions'[key] # actions[key] /\ actions'[other] # actions[other]) => key = other
        /\ \A key \in DOMAIN actions : actions'[key] # actions[key] => last'.keys = <<key>>
        /\ plugins' = plugins
        /\ grammar' = grammar]_vars

\* a dispatch, after both discoveries, that loaded the module of the action it
\* ran
C29_Witness ==
    /\ Dispatched /\ last.outcome = "ran" /\ Pairs(plugins) # {}
    /\ \E key \in DOMAIN actions : last.keys = <<key>> /\ actions[key].m = ModuleLoaded /\ actions[key].execs = 1 /\ actions[key].calls = 1 /\ lazyload

\* C30: two Flexistack instances have independent registries: a load_actions
\* on the second instance that raised nothing has registered every action file
\* of its root for that instance, with a registry entry and an entry in the
\* second instance's grammar, also when the first instance loaded the same
\* paths before.
C30_SecondInstanceRegistersItsOwn ==
    (last.op = "load_actions_other" /\ last.raised = NoRaise) =>
        \A f \in ActionFiles(Root(tree).entries, Root(tree).path, <<>>, sep) :
            /\ f.key \in DOMAIN actions
            /\ \E i \in 1..Len(otherGrammar) : /\ otherGrammar[i].kind \in {"leaf", "flag"}
                                               /\ otherGrammar[i].on = f.on
                                               /\ otherGrammar[i].name = f.name

====
